---- MODULE Spec2Model ----
(***************************************************************************)
(* Peer-relative scoring pipeline of athipan1/AI_Agent (analyzer.py).      *)
(*                                                                         *)
(* Numbers are exact rationals n/d (d > 0) instead of IEEE doubles; every  *)
(* comparison of the source (target < peer_mean * 0.8, ...) is made by     *)
(* cross-multiplication, so band decisions are the mathematically exact    *)
(* ones.  A metric value ("cell") is a record [k, n, d] whose kind k is    *)
(*   "num"    an int/float that is not NaN, value n/d                      *)
(*   "numstr" a string that parses as the number n/d                       *)
(*   "text"   a string that does not parse as a number                     *)
(*   "None"   Python None                                                  *)
(*   "nan"    float('nan')                                                 *)
(* A record (dict) is a function whose DOMAIN is the set of keys present.  *)
(***************************************************************************)
EXTENDS Integers, Sequences, FiniteSets, TLC

VARIABLES pc, target_ticker, all_data, target_data, peer_data, peer_stats,
          comparison_table, summary_score, adjustments, result,
          main_peers, alt_data, alt_out

vars == <<pc, target_ticker, all_data, target_data, peer_data, peer_stats,
          comparison_table, summary_score, adjustments, result,
          main_peers, alt_data, alt_out>>

(***************************************************************************)
(* Values                                                                  *)
(***************************************************************************)
Rat(n, d) == [k |-> "num", n |-> n, d |-> d]
Num(n) == Rat(n, 1)
NumStr(n) == [k |-> "numstr", n |-> n, d |-> 1]
Text == [k |-> "text", n |-> 0, d |-> 1]
NoneV == [k |-> "None", n |-> 0, d |-> 1]
NaN == [k |-> "nan", n |-> 0, d |-> 1]

\* marker used only while building input records: the key is not present
Absent == [k |-> "absent", n |-> 0, d |-> 1]

MakeRecord(f) == [m \in {x \in DOMAIN f : f[x] # Absent} |-> f[m]]

EmptyDict == MakeRecord([m \in {} |-> Absent])

Abs(x) == IF x < 0 THEN -x ELSE x

RECURSIVE GCD(_, _)
GCD(a, b) == IF b = 0 THEN a ELSE GCD(b, a % b)

Normalize(n, d) ==
    LET g == GCD(Abs(n), d)
    IN  Rat(n \div g, d \div g)

Lt(a, b) == a.n * b.d < b.n * a.d
Gt(a, b) == Lt(b, a)
EqR(a, b) == a.n * b.d = b.n * a.d
Le(a, b) == ~Lt(b, a)

\* x * (p/q) for a float literal p/q of the source (0.8, 1.5, 0.5)
Times(x, p, q) == Rat(x.n * p, x.d * q)

\* dict.get(key): None when the key is not present
Get(dict, key) == IF key \in DOMAIN dict THEN dict[key] ELSE NoneV

\* peer_stats.get(metric, {}).get('mean')
PeerMean(stats, metric) ==
    IF metric \in DOMAIN stats THEN stats[metric].mean ELSE NoneV

\* pd.to_numeric(scalar, errors='coerce')
to_numeric(v) ==
    CASE v.k = "num" -> v
      [] v.k = "numstr" -> Rat(v.n, v.d)
      [] OTHER -> NaN

\* pd.notna(scalar): only None and NaN are missing
notna(v) == v.k \notin {"None", "nan"}

\* isinstance(v, (int, float)): NaN is a float
isinstance_number(v) == v.k \in {"num", "nan"}

(***************************************************************************)
(* Metric lists                                                            *)
(***************************************************************************)
numeric_metrics ==
    <<"P/E", "Forward P/E", "PEG Ratio", "EPS", "EPS Growth", "Debt/Equity",
      "ROE", "Operating Margin", "Gross Margin", "Revenue Growth",
      "Free Cash Flow">>

valuation_metrics == <<"P/E", "Forward P/E", "PEG Ratio">>

positive_metrics ==
    <<"ROE", "Operating Margin", "Gross Margin", "Revenue Growth", "EPS Growth">>

\* metric -> TRUE when its display format is '{:.2%}', FALSE for '{:.2f}'
metrics_to_compare ==
    <<"P/E", "Forward P/E", "PEG Ratio", "ROE", "Operating Margin",
      "Gross Margin", "Revenue Growth", "EPS Growth", "Debt/Equity">>

IsPercentFormat(metric) ==
    metric \in {"ROE", "Operating Margin", "Gross Margin", "Revenue Growth",
                "EPS Growth"}

Range(s) == {s[i] : i \in DOMAIN s}

ScoredMetrics == Range(valuation_metrics) \cup Range(positive_metrics) \cup {"Debt/Equity"}

(***************************************************************************)
(* create_peer_comparison_table                                            *)
(*                                                                         *)
(* A rendered cell is [s, prefix, q, pct]: s = "N/A" for the placeholder,  *)
(* "nan" for the text Python prints for a NaN, and "num" for a number      *)
(* printed with the digits q (the value scaled by 10^decimals and rounded  *)
(* half-even as format() does), followed by "%" when pct.                  *)
(***************************************************************************)
NACell == [s |-> "N/A", prefix |-> "", q |-> 0, pct |-> FALSE]

RoundHalfEven(n, d) ==
    LET q == n \div d
        r == n % d
    IN  IF 2 * r < d THEN q
        ELSE IF 2 * r > d THEN q + 1
        ELSE IF q % 2 = 0 THEN q ELSE q + 1

\* fmt.format(v) for fmt '{:.2f}' (pct = FALSE) or '{:.2%}' (pct = TRUE)
FormatValue(v, pct) ==
    IF v.k = "nan"
    THEN [s |-> "nan", prefix |-> "", q |-> 0, pct |-> pct]
    ELSE [s |-> "num", prefix |-> "",
          q |-> RoundHalfEven(v.n * (IF pct THEN 10000 ELSE 100), v.d),
          pct |-> pct]

\* (target_val - peer_mean) / abs(peer_mean), peer_mean # 0
Diff(target_val, peer_mean) ==
    Rat((target_val.n * peer_mean.d - peer_mean.n * target_val.d) * peer_mean.d,
        target_val.d * peer_mean.d * Abs(peer_mean.n))

\* f"{prefix}{diff:.1%}"
FormatDiff(target_val, peer_mean) ==
    IF target_val.k = "nan"
    THEN [s |-> "nan", prefix |-> "", q |-> 0, pct |-> TRUE]
    ELSE LET diff == Diff(target_val, peer_mean)
         IN  [s |-> "num",
              prefix |-> IF diff.n >= 0 THEN "+" ELSE "",
              q |-> RoundHalfEven(diff.n * 1000, diff.d),
              pct |-> TRUE]

TargetGuard(target_val) == isinstance_number(target_val)

PeerGuard(peer_mean) == isinstance_number(peer_mean) /\ peer_mean.k # "nan"

TableRow(target, stats, metric) ==
    LET target_val == Get(target, metric)
        peer_mean == PeerMean(stats, metric)
        pct == IsPercentFormat(metric)
    IN  [metric |-> metric,
         target_str |-> IF TargetGuard(target_val)
                        THEN FormatValue(target_val, pct) ELSE NACell,
         peer_str |-> IF PeerGuard(peer_mean)
                      THEN FormatValue(peer_mean, pct) ELSE NACell,
         comparison_str |->
             IF TargetGuard(target_val) /\ PeerGuard(peer_mean) /\ peer_mean.n # 0
             THEN FormatDiff(target_val, peer_mean) ELSE NACell]

create_peer_comparison_table(target, stats) ==
    [i \in 1..Len(metrics_to_compare) |-> TableRow(target, stats, metrics_to_compare[i])]

(***************************************************************************)
(* calculate_summary_score                                                 *)
(***************************************************************************)
\* the bands as independent `if`s instead of one if/elif chain
ValuationBands_IndependentIfs(target, peer_mean) ==
    (IF Lt(target, Times(peer_mean, 4, 5)) THEN 5 ELSE 0)
    + (IF Lt(target, peer_mean) THEN 2 ELSE 0)
    + (IF Gt(target, Times(peer_mean, 3, 2)) THEN -5 ELSE 0)
    + (IF Gt(target, peer_mean) THEN -2 ELSE 0)

ValuationBands(target, peer_mean) ==
    IF Lt(target, Times(peer_mean, 4, 5)) THEN 5
    ELSE IF Lt(target, peer_mean) THEN 2
    ELSE IF Gt(target, Times(peer_mean, 3, 2)) THEN -5
    ELSE IF Gt(target, peer_mean) THEN -2
    ELSE 0

ValuationGuard(target, peer_mean) ==
    notna(target) /\ notna(peer_mean) /\ Gt(peer_mean, Num(0))

ValuationAdjustment(target_rec, stats, metric) ==
    LET target == to_numeric(Get(target_rec, metric))
        peer_mean == PeerMean(stats, metric)
    IN  IF ValuationGuard(target, peer_mean)
        THEN ValuationBands(target, peer_mean) ELSE 0

StrengthBands(target, peer_mean) ==
    IF Gt(target, Times(peer_mean, 3, 2)) THEN 7
    ELSE IF Gt(target, peer_mean) THEN 3
    ELSE IF Lt(target, Times(peer_mean, 4, 5)) THEN -7
    ELSE IF Lt(target, peer_mean) THEN -3
    ELSE 0

\* the valuation guard copied to the strength metrics
StrengthGuard_PositiveOnly(target, peer_mean) ==
    notna(target) /\ notna(peer_mean) /\ Gt(peer_mean, Num(0))

StrengthGuard(target, peer_mean) == notna(target) /\ notna(peer_mean)

StrengthAdjustment(target_rec, stats, metric) ==
    LET target == to_numeric(Get(target_rec, metric))
        peer_mean == PeerMean(stats, metric)
    IN  IF StrengthGuard(target, peer_mean)
        THEN StrengthBands(target, peer_mean) ELSE 0

LeverageBands(target_de, peer_de) ==
    IF Lt(target_de, Times(peer_de, 1, 2)) THEN 7
    ELSE IF Lt(target_de, peer_de) THEN 3
    ELSE IF Gt(target_de, Times(peer_de, 3, 2)) THEN -7
    ELSE IF Gt(target_de, peer_de) THEN -3
    ELSE 0

LeverageAdjustment(target_rec, stats) ==
    LET target_de == to_numeric(Get(target_rec, "Debt/Equity"))
        peer_de == PeerMean(stats, "Debt/Equity")
    IN  IF notna(target_de) /\ notna(peer_de)
        THEN LeverageBands(target_de, peer_de) ELSE 0

\* the amount each `score += ...` / `score -= ...` adds for one metric
Adjustment(target_rec, stats, metric) ==
    IF metric \in Range(valuation_metrics)
    THEN ValuationAdjustment(target_rec, stats, metric)
    ELSE IF metric \in Range(positive_metrics)
    THEN StrengthAdjustment(target_rec, stats, metric)
    ELSE LeverageAdjustment(target_rec, stats)

RECURSIVE SumOver(_, _, _)
SumOver(target_rec, stats, metrics) ==
    IF metrics = <<>> THEN 0
    ELSE Adjustment(target_rec, stats, Head(metrics))
         + SumOver(target_rec, stats, Tail(metrics))

Max(a, b) == IF a >= b THEN a ELSE b
Min(a, b) == IF a <= b THEN a ELSE b

\* the upper clamp forgotten
Clamp_NoUpperBound(score) == Max(0, score)

\* max(0, min(100, int(score)))
Clamp(score) == Max(0, Min(100, score))

\* the Debt/Equity block left out
calculate_summary_score_NoLeverage(target_rec, stats) ==
    Clamp(50 + SumOver(target_rec, stats, valuation_metrics)
             + SumOver(target_rec, stats, positive_metrics))

calculate_summary_score(target_rec, stats) ==
    Clamp(50 + SumOver(target_rec, stats, valuation_metrics)
             + SumOver(target_rec, stats, positive_metrics)
             + LeverageAdjustment(target_rec, stats))

(***************************************************************************)
(* calculate_peer_stats                                                    *)
(***************************************************************************)
RECURSIVE SeqOfSet(_)
SeqOfSet(S) ==
    IF S = {} THEN <<>>
    ELSE LET m == CHOOSE x \in S : \A y \in S : x <= y
         IN  <<m>> \o SeqOfSet(S \ {m})

\* the DataFrame has a column for every key that occurs in some peer record
HasColumn(peers, metric) == \E t \in DOMAIN peers : metric \in DOMAIN peers[t]

\* pd.to_numeric(df.get(metric), errors='coerce') for a column that exists:
\* one entry per peer, NaN where the peer has no usable number
NumericSeries(peers, metric) ==
    LET order == SeqOfSet(DOMAIN peers)
    IN  [i \in 1..Len(order) |-> to_numeric(Get(peers[order[i]], metric))]

IsNumber(v) == v.k = "num"

\* the entries mean() and median() use (skipna)
NotNa(series) == SelectSeq(series, IsNumber)

RECURSIVE SumSeq(_)
SumSeq(s) ==
    IF s = <<>> THEN Rat(0, 1)
    ELSE LET rest == SumSeq(Tail(s))
         IN  Rat(Head(s).n * rest.d + rest.n * Head(s).d, Head(s).d * rest.d)

RECURSIVE InsertSorted(_, _)
InsertSorted(v, s) ==
    IF s = <<>> THEN <<v>>
    ELSE IF Le(v, Head(s)) THEN <<v>> \o s
    ELSE <<Head(s)>> \o InsertSorted(v, Tail(s))

RECURSIVE SortValues(_)
SortValues(s) == IF s = <<>> THEN <<>> ELSE InsertSorted(Head(s), SortValues(Tail(s)))

SeriesMean(values) ==
    LET total == SumSeq(values)
    IN  Normalize(total.n, total.d * Len(values))

SeriesMedian(values) ==
    LET sorted == SortValues(values)
        n == Len(values)
    IN  IF n % 2 = 1
        THEN Normalize(sorted[(n + 1) \div 2].n, sorted[(n + 1) \div 2].d)
        ELSE LET two == SumSeq(<<sorted[n \div 2], sorted[n \div 2 + 1]>>)
             IN  Normalize(two.n, two.d * 2)

MetricStats(peers, metric) ==
    LET values == NotNa(NumericSeries(peers, metric))
    IN  IF values # <<>>
        THEN [mean |-> SeriesMean(values), median |-> SeriesMedian(values)]
        ELSE [mean |-> NaN, median |-> NaN]

\* df.get(metric) is None for a key no peer record has; pd.to_numeric(None)
\* is then a scalar and `numeric_series.empty` raises AttributeError
StatsRaises(peers) ==
    /\ DOMAIN peers # {}
    /\ \E metric \in Range(numeric_metrics) : ~HasColumn(peers, metric)

calculate_peer_stats(peers) ==
    IF DOMAIN peers = {} THEN EmptyDict
    ELSE [metric \in Range(numeric_metrics) |-> MetricStats(peers, metric)]

(***************************************************************************)
(* analyze_with_peers                                                      *)
(***************************************************************************)
\* `not target_data`: a missing key (None) and an empty record are both falsy
Falsy(data, ticker) ==
    IF ticker \in DOMAIN data THEN DOMAIN data[ticker] = {} ELSE TRUE

\* the target left in its own peer group
PeerTickers_KeepTarget(data, ticker) == DOMAIN data

PeerTickers(data, ticker) == {t \in DOMAIN data : t # ticker}

PeerData(data, ticker) == [t \in PeerTickers(data, ticker) |-> data[t]]

\* np.isnan(val) for val in v.values()
AllNaN(stat) == stat.mean.k = "nan" /\ stat.median.k = "nan"

\* the NaN clean-up left out
CleanStats_KeepAll(stats) == stats

CleanStats(stats) == [m \in {x \in DOMAIN stats : ~AllNaN(stats[x])} |-> stats[m]]

NoPeerResult == [key \in {"error"} |-> "No peer data available."]

AnalysisResult(stats, table, score) ==
    [key \in {"peer_stats", "comparison_table", "summary_score"} |->
        CASE key = "peer_stats" -> CleanStats(stats)
          [] key = "comparison_table" -> table
          [] OTHER -> score]

\* the whole call: where it ends ("done" or "raised"), the peer statistics
\* it computed and the value it returned
analyze_with_peers(ticker, data) ==
    IF Falsy(data, ticker)
    THEN [pc |-> "done", peer_stats |-> EmptyDict, result |-> NoneV]
    ELSE IF PeerTickers(data, ticker) = {}
    THEN [pc |-> "done", peer_stats |-> EmptyDict, result |-> NoPeerResult]
    ELSE IF StatsRaises(PeerData(data, ticker))
    THEN [pc |-> "raised", peer_stats |-> EmptyDict, result |-> EmptyDict]
    ELSE LET stats == calculate_peer_stats(PeerData(data, ticker))
         IN  [pc |-> "done",
              peer_stats |-> stats,
              result |-> AnalysisResult(
                             stats,
                             create_peer_comparison_table(data[ticker], stats),
                             calculate_summary_score(data[ticker], stats))]

(***************************************************************************)
(* Inputs                                                                  *)
(***************************************************************************)
NumTickers == 3

Tickers == 1..NumTickers

\* a record as get_stocks_data builds it: every metric key present
FullRecord(c) == [m \in Range(numeric_metrics) |-> c]

MixedRecord ==
    [m \in Range(numeric_metrics) |->
        CASE m = "P/E" -> Num(10)
          [] m = "Forward P/E" -> Text
          [] m = "PEG Ratio" -> NoneV
          [] m = "EPS" -> Num(0)
          [] m = "EPS Growth" -> NaN
          [] m = "Debt/Equity" -> NumStr(30)
          [] m = "ROE" -> Rat(3, 10)
          [] m = "Operating Margin" -> Rat(1, 10)
          [] m = "Gross Margin" -> Text
          [] m = "Revenue Growth" -> Num(0)
          [] OTHER -> Num(100000)]

OnlyPE == [m \in {"P/E"} |-> Num(10)]

SampleRecords ==
    {FullRecord(Num(10)), FullRecord(Num(20)), FullRecord(Num(-10)),
     FullRecord(NumStr(30)), FullRecord(Text), FullRecord(NoneV),
     FullRecord(NaN), MixedRecord, OnlyPE, EmptyDict}

DataSets == UNION {[S -> SampleRecords] : S \in SUBSET Tickers}

ScoreTargetCells ==
    {Num(-12), Num(-10), Num(0), Num(5), Num(7), Num(8), Num(9), Num(10),
     Num(12), Num(15), Num(16), Num(100000), NumStr(7), Text, NoneV, NaN,
     Absent}

ScorePeerMeans == {Num(10), Num(0), Num(-10), NaN, Absent}

\* valuation metrics hold cv, strength metrics cs, Debt/Equity cd
UniformTarget(cv, cs, cd) ==
    MakeRecord([m \in ScoredMetrics |->
                   IF m \in Range(valuation_metrics) THEN cv
                   ELSE IF m \in Range(positive_metrics) THEN cs
                   ELSE cd])

UniformStats(pm) ==
    IF pm = Absent THEN EmptyDict
    ELSE [m \in Range(numeric_metrics) |-> [mean |-> pm, median |-> pm]]

StatsOf(f) == [m \in DOMAIN f |-> [mean |-> f[m], median |-> f[m]]]

ScenarioC ==
    [target |-> [m \in {"P/E"} |-> Num(10)],
     stats |-> StatsOf([m \in {"P/E"} |-> Num(20)])]

ScenarioD ==
    [target |-> [m \in {"P/E", "ROE"} |-> IF m = "P/E" THEN Num(10) ELSE Rat(30, 100)],
     stats |-> StatsOf([m \in {"P/E", "ROE"} |-> IF m = "P/E" THEN Num(20) ELSE Rat(10, 100)])]

ScenarioMixed ==
    [target |-> UniformTarget(Num(10), Num(10), Num(10)),
     stats |-> StatsOf([m \in ScoredMetrics |->
                           IF m \in Range(valuation_metrics) THEN Num(20)
                           ELSE IF m \in Range(positive_metrics) THEN Num(-10)
                           ELSE Num(0)])]

Scenarios == {ScenarioC, ScenarioD, ScenarioMixed}

(***************************************************************************)
(* State machine                                                           *)
(***************************************************************************)
NoAdjustments == [m \in ScoredMetrics |-> 0]

\* the value of alt_out before the second call has returned
NoOutcome == [pc |-> "unset", peer_stats |-> EmptyDict, result |-> EmptyDict]

\* no orchestrator run and no second call in progress
Alone ==
    /\ main_peers = {}
    /\ alt_data = EmptyDict
    /\ alt_out = NoOutcome

Unset ==
    /\ target_data = EmptyDict
    /\ peer_data = EmptyDict
    /\ peer_stats = EmptyDict
    /\ comparison_table = <<>>
    /\ summary_score = -1
    /\ adjustments = NoAdjustments
    /\ result = EmptyDict

\* a call analyze_with_peers(target_ticker, all_data)
Init ==
    /\ pc = "start"
    /\ target_ticker \in Tickers
    /\ all_data \in DataSets
    /\ Unset
    /\ Alone

\* lines 138-141: `if not target_data: return None`
ReturnNoTarget ==
    /\ pc = "start"
    /\ Falsy(all_data, target_ticker)
    /\ result' = NoneV
    /\ pc' = "done"
    /\ UNCHANGED <<main_peers, alt_data, alt_out>>
    /\ UNCHANGED <<target_ticker, all_data, target_data, peer_data, peer_stats,
                   comparison_table, summary_score, adjustments>>

\* lines 143-148: `if not peer_data: return {"error": ...}`
ReturnNoPeers ==
    /\ pc = "start"
    /\ ~Falsy(all_data, target_ticker)
    /\ PeerTickers(all_data, target_ticker) = {}
    /\ target_data' = all_data[target_ticker]
    /\ result' = NoPeerResult
    /\ pc' = "done"
    /\ UNCHANGED <<main_peers, alt_data, alt_out>>
    /\ UNCHANGED <<target_ticker, all_data, peer_data, peer_stats,
                   comparison_table, summary_score, adjustments>>

\* lines 138-146 when both checks pass
SplitPeers ==
    /\ pc = "start"
    /\ ~Falsy(all_data, target_ticker)
    /\ PeerTickers(all_data, target_ticker) # {}
    /\ target_data' = all_data[target_ticker]
    /\ peer_data' = PeerData(all_data, target_ticker)
    /\ pc' = "stats"
    /\ UNCHANGED <<main_peers, alt_data, alt_out>>
    /\ UNCHANGED <<target_ticker, all_data, peer_stats, comparison_table,
                   summary_score, adjustments, result>>

\* line 151 (lines 6-42)
CalcPeerStats ==
    /\ pc = "stats"
    /\ IF StatsRaises(peer_data)
       THEN /\ pc' = "raised"
            /\ UNCHANGED peer_stats
       ELSE /\ peer_stats' = calculate_peer_stats(peer_data)
            /\ pc' = "table"
    /\ UNCHANGED <<main_peers, alt_data, alt_out>>
    /\ UNCHANGED <<target_ticker, all_data, target_data, peer_data,
                   comparison_table, summary_score, adjustments, result>>

\* line 154 (lines 44-78)
CreateTable ==
    /\ pc = "table"
    /\ comparison_table' = create_peer_comparison_table(target_data, peer_stats)
    /\ pc' = "score"
    /\ UNCHANGED <<main_peers, alt_data, alt_out>>
    /\ UNCHANGED <<target_ticker, all_data, target_data, peer_data, peer_stats,
                   summary_score, adjustments, result>>

\* line 157 (lines 80-124)
CalcScore ==
    /\ pc = "score"
    /\ summary_score' = calculate_summary_score(target_data, peer_stats)
    /\ adjustments' = [m \in ScoredMetrics |-> Adjustment(target_data, peer_stats, m)]
    /\ pc' = "assemble"
    /\ UNCHANGED <<main_peers, alt_data, alt_out>>
    /\ UNCHANGED <<target_ticker, all_data, target_data, peer_data, peer_stats,
                   comparison_table, result>>

\* lines 159-165
Assemble ==
    /\ pc = "assemble"
    /\ result' = AnalysisResult(peer_stats, comparison_table, summary_score)
    /\ pc' = "done"
    /\ UNCHANGED <<main_peers, alt_data, alt_out>>
    /\ UNCHANGED <<target_ticker, all_data, target_data, peer_data, peer_stats,
                   comparison_table, summary_score, adjustments>>

Next ==
    \/ ReturnNoTarget
    \/ ReturnNoPeers
    \/ SplitPeers
    \/ CalcPeerStats
    \/ CreateTable
    \/ CalcScore
    \/ Assemble

Spec == Init /\ [][Next]_vars

\* a direct call calculate_peer_stats(peer_data), the empty group included
InitStats ==
    /\ pc = "stats"
    /\ target_ticker = 1
    /\ all_data = EmptyDict
    /\ peer_data \in DataSets
    /\ target_data = EmptyDict
    /\ peer_stats = EmptyDict
    /\ comparison_table = <<>>
    /\ summary_score = -1
    /\ adjustments = NoAdjustments
    /\ result = EmptyDict
    /\ Alone

NextStats == CalcPeerStats

SpecStats == InitStats /\ [][NextStats]_vars

\* direct calls create_peer_comparison_table(target_data, peer_stats) and
\* calculate_summary_score(target_data, peer_stats)
InitScore ==
    /\ pc = "table"
    /\ target_ticker = 1
    /\ all_data = EmptyDict
    /\ peer_data = EmptyDict
    /\ \/ \E cv \in ScoreTargetCells, cs \in ScoreTargetCells,
             cd \in ScoreTargetCells, pm \in ScorePeerMeans :
             /\ target_data = UniformTarget(cv, cs, cd)
             /\ peer_stats = UniformStats(pm)
       \/ \E sc \in Scenarios :
             /\ target_data = sc.target
             /\ peer_stats = sc.stats
    /\ comparison_table = <<>>
    /\ summary_score = -1
    /\ adjustments = NoAdjustments
    /\ result = EmptyDict
    /\ Alone

NextScore == CreateTable \/ CalcScore

SpecScore == InitScore /\ [][NextScore]_vars

(***************************************************************************)
(* Properties of calculate_summary_score (checked under SpecScore)         *)
(***************************************************************************)
RECURSIVE SumFn(_, _)
SumFn(f, S) ==
    IF S = {} THEN 0
    ELSE LET m == CHOOSE x \in S : TRUE
         IN  f[m] + SumFn(f, S \ {m})

Scored == pc = "assemble"

\* the number the scorer works with on the target side, and the peer mean
TargetNumber(m) == to_numeric(Get(target_data, m))
MeanOf(m) == PeerMean(peer_stats, m)
BothNumeric(m) == IsNumber(TargetNumber(m)) /\ IsNumber(MeanOf(m))

\* C1: whatever the target record and the peer statistics are (metrics
\* absent, non-numeric target values, zero or negative peer means, a target
\* 10,000 times the peer mean), the score returned is an integer in 0..100.
C1_ScoreInRange == Scored => summary_score \in 0..100

\* the upper clamp acts: every adjustment is at its best, 50 + 57 > 100,
\* with the strength metrics 10,000 times their peer mean
C1_Witness ==
    /\ Scored
    /\ SumFn(adjustments, ScoredMetrics) = 57
    /\ Get(target_data, "ROE") = Num(100000)
    /\ MeanOf("ROE") = Num(10)
    /\ summary_score = 100

\* C2: when the target equals the peer mean on every scored metric, for any
\* numeric peer mean, the score is exactly 50.
C2_Symmetry ==
    (Scored /\ \A m \in ScoredMetrics :
                  /\ IsNumber(Get(target_data, m))
                  /\ IsNumber(MeanOf(m))
                  /\ EqR(Get(target_data, m), MeanOf(m)))
    => summary_score = 50

\* the bands of the valuation table, each with its full condition
ValuationBandHolds(b, t, pm) ==
    CASE b = 1 -> Lt(t, Times(pm, 4, 5))
      [] b = 2 -> Le(Times(pm, 4, 5), t) /\ Lt(t, pm)
      [] b = 3 -> Gt(t, Times(pm, 3, 2))
      [] b = 4 -> Lt(pm, t) /\ Le(t, Times(pm, 3, 2))
      [] OTHER -> EqR(t, pm)

ValuationBandValue(b) ==
    CASE b = 1 -> 5 [] b = 2 -> 2 [] b = 3 -> -5 [] b = 4 -> -2 [] OTHER -> 0

FirstValuationBand(t, pm) ==
    CHOOSE b \in 1..5 :
        /\ ValuationBandHolds(b, t, pm)
        /\ \A c \in 1..(b - 1) : ~ValuationBandHolds(c, t, pm)

\* C6: a valuation metric is adjusted by the first band that matches, in
\* the order +5, +2, -5, -2, 0; exactly one band matches; and the metric
\* contributes 0 when the peer mean is not strictly positive.
C6_ValuationBands ==
    Scored => \A m \in Range(valuation_metrics) :
        /\ adjustments[m] \in {5, 2, -5, -2, 0}
        /\ IF BothNumeric(m) /\ Gt(MeanOf(m), Num(0))
           THEN /\ Cardinality({b \in 1..5 :
                        ValuationBandHolds(b, TargetNumber(m), MeanOf(m))}) = 1
                /\ adjustments[m] =
                       ValuationBandValue(FirstValuationBand(TargetNumber(m), MeanOf(m)))
           ELSE adjustments[m] = 0

\* the target sits exactly on 0.8 * peer_mean: only the "cheaper" band fires
C6_Witness ==
    /\ Scored
    /\ Get(target_data, "P/E") = Num(8)
    /\ MeanOf("P/E") = Num(10)
    /\ adjustments["P/E"] = 2

StrengthBandHolds(b, t, pm) ==
    CASE b = 1 -> Gt(t, Times(pm, 3, 2))
      [] b = 2 -> Lt(pm, t) /\ Le(t, Times(pm, 3, 2))
      [] b = 3 -> Lt(t, Times(pm, 4, 5))
      [] b = 4 -> Le(Times(pm, 4, 5), t) /\ Lt(t, pm)
      [] OTHER -> TRUE

StrengthBandValue(b) ==
    CASE b = 1 -> 7 [] b = 2 -> 3 [] b = 3 -> -7 [] b = 4 -> -3 [] OTHER -> 0

FirstStrengthBand(t, pm) ==
    CHOOSE b \in 1..5 :
        /\ StrengthBandHolds(b, t, pm)
        /\ \A c \in 1..(b - 1) : ~StrengthBandHolds(c, t, pm)

LeverageBandHolds(b, t, pm) ==
    CASE b = 1 -> Lt(t, Times(pm, 1, 2))
      [] b = 2 -> Le(Times(pm, 1, 2), t) /\ Lt(t, pm)
      [] b = 3 -> Gt(t, Times(pm, 3, 2))
      [] b = 4 -> Lt(pm, t) /\ Le(t, Times(pm, 3, 2))
      [] OTHER -> TRUE

FirstLeverageBand(t, pm) ==
    CHOOSE b \in 1..5 :
        /\ LeverageBandHolds(b, t, pm)
        /\ \A c \in 1..(b - 1) : ~LeverageBandHolds(c, t, pm)

\* the adjustment the band tables give one metric from its own two values
TableAdjustment(m) ==
    IF ~BothNumeric(m) THEN 0
    ELSE IF m \in Range(valuation_metrics)
    THEN IF Gt(MeanOf(m), Num(0))
         THEN ValuationBandValue(FirstValuationBand(TargetNumber(m), MeanOf(m)))
         ELSE 0
    ELSE IF m \in Range(positive_metrics)
    THEN StrengthBandValue(FirstStrengthBand(TargetNumber(m), MeanOf(m)))
    ELSE StrengthBandValue(FirstLeverageBand(TargetNumber(m), MeanOf(m)))

TableAdjustments == [m \in ScoredMetrics |-> TableAdjustment(m)]

\* C8: the score is 50 plus the sum of the per-metric adjustments, clamped
\* to 0..100; a metric absent or non-numeric on either side adds 0; P/E 10
\* against a peer mean of 20 alone gives 55, and with ROE 0.30 against 0.10
\* it gives 62.
C8_ScoreIsClampedSum ==
    Scored =>
        /\ summary_score =
               Max(0, Min(100, 50 + SumFn(TableAdjustments, ScoredMetrics)))
        /\ \A m \in ScoredMetrics : ~BothNumeric(m) => adjustments[m] = 0
        /\ (target_data = ScenarioC.target /\ peer_stats = ScenarioC.stats)
               => summary_score = 55
        /\ (target_data = ScenarioD.target /\ peer_stats = ScenarioD.stats)
               => summary_score = 62

C8_Witness ==
    /\ Scored
    /\ target_data = ScenarioD.target
    /\ peer_stats = ScenarioD.stats
    /\ adjustments["P/E"] = 5
    /\ adjustments["ROE"] = 7
    /\ summary_score = 62

(***************************************************************************)
(* Properties of create_peer_comparison_table (checked under SpecScore)    *)
(***************************************************************************)
Tabled == pc \in {"score", "assemble"}

\* C9: the delta cell of a row is "N/A" exactly when the target value is
\* absent or not a number, or the peer mean is absent, or the peer mean is
\* 0; otherwise it shows (target - peer_mean) / |peer_mean| as a percentage
\* with one decimal, with a leading "+" exactly when the delta is >= 0.
C9_DeltaCell ==
    Tabled => \A i \in 1..Len(metrics_to_compare) :
        LET m == metrics_to_compare[i]
            t == Get(target_data, m)
            pm == MeanOf(m)
            cell == comparison_table[i].comparison_str
        IN  IF ~IsNumber(t) \/ ~IsNumber(pm) \/ pm.n = 0
            THEN cell.s = "N/A"
            ELSE /\ cell.s = "num"
                 /\ cell.pct
                 /\ (cell.prefix = "+") <=> Le(pm, t)
                 \* cell.q / 1000 is a nearest multiple of 0.1% to the delta
                 /\ 2 * Abs(cell.q * Diff(t, pm).d - 1000 * Diff(t, pm).n)
                        <= Diff(t, pm).d

(***************************************************************************)
(* Properties of calculate_peer_stats (checked under SpecStats)            *)
(***************************************************************************)
StatsReturned == pc = "table"
StatsCalled == pc # "stats"

\* the peers that have a usable number for the metric, and their values
NumericPeers(m) ==
    {t \in DOMAIN peer_data : IsNumber(to_numeric(Get(peer_data[t], m)))}

ValueOf(t, m) == to_numeric(Get(peer_data[t], m))

MeanAbsent(m) == ~IsNumber(MeanOf(m))

\* C4: for a non-empty peer group whose cells are numbers, strings, None or
\* missing keys (also a key no peer has), calculate_peer_stats returns, and
\* a metric no peer has a number for gets {mean: NaN, median: NaN}.
C4_NeverRaises ==
    (StatsCalled /\ DOMAIN peer_data # {}) =>
        /\ StatsReturned
        /\ \A m \in Range(numeric_metrics) :
               NumericPeers(m) = {} =>
                   /\ m \in DOMAIN peer_stats
                   /\ peer_stats[m] = [mean |-> NaN, median |-> NaN]

\* sum of the numeric values as a rational over a common denominator
RECURSIVE SumPeers(_, _)
SumPeers(S, m) ==
    IF S = {} THEN Rat(0, 1)
    ELSE LET t == CHOOSE x \in S : TRUE
             rest == SumPeers(S \ {t}, m)
         IN  Rat(ValueOf(t, m).n * rest.d + rest.n * ValueOf(t, m).d,
                 ValueOf(t, m).d * rest.d)

MeanIsOverNumericPeers(m) ==
    LET total == SumPeers(NumericPeers(m), m)
    IN  /\ EqR(MeanOf(m), Rat(total.n, total.d * Cardinality(NumericPeers(m))))
        /\ \E t \in NumericPeers(m) : Le(ValueOf(t, m), MeanOf(m))
        /\ \E t \in NumericPeers(m) : Le(MeanOf(m), ValueOf(t, m))

\* C5: for every peer group and metric, calculate_peer_stats reports the
\* mean as absent exactly when no peer has a number for the metric, and
\* otherwise the mean of exactly those numbers, between their min and max.
C5_MeanOverNumericSubset ==
    StatsCalled =>
        /\ StatsReturned
        /\ \A m \in Range(numeric_metrics) :
               /\ MeanAbsent(m) <=> NumericPeers(m) = {}
               /\ ~MeanAbsent(m) => MeanIsOverNumericPeers(m)

(***************************************************************************)
(* Properties of analyze_with_peers (checked under Spec)                   *)
(***************************************************************************)
Returned == pc = "done"
Finished == pc \in {"done", "raised"}

IsSuccess(r) == DOMAIN r = {"peer_stats", "comparison_table", "summary_score"}

\* C3: the outcome is decided by the keys of the data alone: None exactly
\* when the target is not a key, {"error": ...} exactly when the target is
\* the only key, and otherwise a result with peer_stats, comparison_table
\* and summary_score.
C3_OutcomeByKeys ==
    Finished =>
        /\ (Returned /\ result = NoneV) <=> target_ticker \notin DOMAIN all_data
        /\ (Returned /\ result = NoPeerResult) <=> DOMAIN all_data = {target_ticker}
        /\ (target_ticker \in DOMAIN all_data /\ DOMAIN all_data # {target_ticker})
               => (Returned /\ IsSuccess(result))

\* C10: in a successful result, peer_stats has an entry for a metric exactly
\* when some peer has a number for it, and every entry kept has a numeric
\* mean and a numeric median.
C10_CleanPeerStats ==
    (Returned /\ IsSuccess(result)) =>
        \A m \in Range(numeric_metrics) :
            /\ m \in DOMAIN result["peer_stats"] <=> NumericPeers(m) # {}
            /\ m \in DOMAIN result["peer_stats"] =>
                   /\ IsNumber(result["peer_stats"][m].mean)
                   /\ IsNumber(result["peer_stats"][m].median)

\* one peer with numbers for some metrics only: some entries kept, some dropped
C10_Witness ==
    /\ Returned
    /\ IsSuccess(result)
    /\ "P/E" \in DOMAIN result["peer_stats"]
    /\ result["peer_stats"]["P/E"].mean = Num(10)
    /\ "Gross Margin" \notin DOMAIN result["peer_stats"]
    /\ "Gross Margin" \in DOMAIN peer_stats

(***************************************************************************)
(* Direction of the adjustments and agreement of table and score           *)
(* (checked under SpecScore)                                               *)
(***************************************************************************)
\* C13: an adjustment points the way the comparison points: for a strength
\* metric it is positive only if target > peer mean and negative only if
\* target < peer mean; for Debt/Equity it is positive only if target < peer
\* mean and negative only if target > peer mean; for every numeric target
\* and peer mean, zero and negative peer means included.
C13_DirectionAgrees ==
    Scored =>
        /\ \A m \in Range(positive_metrics) :
               /\ adjustments[m] > 0 => (BothNumeric(m) /\ Gt(TargetNumber(m), MeanOf(m)))
               /\ adjustments[m] < 0 => (BothNumeric(m) /\ Lt(TargetNumber(m), MeanOf(m)))
        /\ adjustments["Debt/Equity"] > 0 =>
               (BothNumeric("Debt/Equity")
                    /\ Lt(TargetNumber("Debt/Equity"), MeanOf("Debt/Equity")))
        /\ adjustments["Debt/Equity"] < 0 =>
               (BothNumeric("Debt/Equity")
                    /\ Gt(TargetNumber("Debt/Equity"), MeanOf("Debt/Equity")))

\* the target cell of the row of metric m
TargetCell(m) ==
    LET i == CHOOSE j \in 1..Len(metrics_to_compare) : metrics_to_compare[j] = m
    IN  comparison_table[i].target_str

\* C14: the table and the score agree on which target values are usable: a
\* metric whose target cell is "N/A" adds nothing to the score, and a metric
\* whose target value the scorer takes as a number has a target cell that
\* is not "N/A" (targets being numbers, numeric strings, other strings,
\* None, NaN or missing keys).
C14_TableAndScoreAgree ==
    Scored => \A m \in ScoredMetrics :
        /\ TargetCell(m).s = "N/A" => adjustments[m] = 0
        /\ notna(TargetNumber(m)) => TargetCell(m).s # "N/A"

(***************************************************************************)
(* Two calls of analyze_with_peers that differ only in the target's record *)
(***************************************************************************)
PairRecords ==
    {FullRecord(Num(10)), FullRecord(Num(20)), FullRecord(Text), MixedRecord,
     OnlyPE, EmptyDict}

PairDataSets == UNION {[S -> PairRecords] : S \in SUBSET Tickers}

\* the first call runs step by step in the pipeline variables; alt_data is
\* its input with another record for the target
InitPair ==
    /\ pc = "start"
    /\ all_data \in PairDataSets
    /\ target_ticker \in DOMAIN all_data
    /\ \E r \in PairRecords :
           /\ r # all_data[target_ticker]
           /\ alt_data = [all_data EXCEPT ![target_ticker] = r]
    /\ Unset
    /\ main_peers = {}
    /\ alt_out = NoOutcome

\* the second call, analyze_with_peers(target_ticker, alt_data), made once
\* the first has ended
AnalyzeAlt ==
    /\ pc \in {"done", "raised"}
    /\ alt_out = NoOutcome
    /\ alt_out' = analyze_with_peers(target_ticker, alt_data)
    /\ UNCHANGED <<pc, target_ticker, all_data, target_data, peer_data,
                   peer_stats, comparison_table, summary_score, adjustments,
                   result, main_peers, alt_data>>

NextPair == Next \/ AnalyzeAlt

SpecPair == InitPair /\ [][NextPair]_vars

BothSucceeded ==
    /\ Returned
    /\ IsSuccess(result)
    /\ alt_out.pc = "done"
    /\ IsSuccess(alt_out.result)

\* the tickers other than the target that have a number for the metric
OtherNumeric(m) ==
    {t \in DOMAIN all_data \ {target_ticker} :
        IsNumber(to_numeric(Get(all_data[t], m)))}

RECURSIVE SumOthers(_, _)
SumOthers(S, m) ==
    IF S = {} THEN Rat(0, 1)
    ELSE LET t == CHOOSE x \in S : TRUE
             v == to_numeric(Get(all_data[t], m))
             rest == SumOthers(S \ {t}, m)
         IN  Rat(v.n * rest.d + rest.n * v.d, v.d * rest.d)

MeanIsOverOthers(m) ==
    IF OtherNumeric(m) = {} THEN ~IsNumber(MeanOf(m))
    ELSE LET total == SumOthers(OtherNumeric(m), m)
         IN  /\ IsNumber(MeanOf(m))
             /\ EqR(MeanOf(m),
                    Rat(total.n, total.d * Cardinality(OtherNumeric(m))))

\* C11: the target's own record never enters its peer group: two calls with
\* the same target and the same records for every other ticker, but another
\* record for the target, give the same peer_stats, and the peer means the
\* table and the score use are means over the other tickers only.
C11_TargetExcluded ==
    /\ BothSucceeded =>
           /\ peer_stats = alt_out.peer_stats
           /\ result["peer_stats"] = alt_out.result["peer_stats"]
    /\ (Returned /\ IsSuccess(result)) =>
           \A m \in Range(numeric_metrics) : MeanIsOverOthers(m)

\* both calls succeed, the target's two records differ in P/E, and the peer
\* mean of P/E is that of the one peer
C11_Witness ==
    /\ BothSucceeded
    /\ all_data[target_ticker] = FullRecord(Num(10))
    /\ alt_data[target_ticker] = FullRecord(Num(20))
    /\ DOMAIN all_data \ {target_ticker} # {}
    /\ \A t \in DOMAIN all_data \ {target_ticker} : all_data[t] = MixedRecord
    /\ result["peer_stats"]["P/E"].mean = Num(10)
    /\ alt_out.result["comparison_table"] # result["comparison_table"]

(***************************************************************************)
(* main (fundamental_agent.py): peer discovery, data fetching, the         *)
(* analysis (the pipeline actions above), the LLM prompt and the report    *)
(***************************************************************************)
\* records get_stocks_data can return: every metric key present, and a P/E
\* that is not None (a ticker whose trailingPE is None is skipped)
FetchedRecords ==
    {FullRecord(Num(10)), FullRecord(Num(20)), FullRecord(Num(-10)), MixedRecord}

\* what get_stocks_data can return for the tickers asked for: a record for
\* any subset of them
FetchResults(tickers) == UNION {[S -> FetchedRecords] : S \in SUBSET tickers}

\* f"{target_data.get(m, default):.2f}" succeeds for an int or float only
Formattable(target, m, default_is_number) ==
    IF m \in DOMAIN target THEN isinstance_number(target[m]) ELSE default_is_number

\* the key-metrics table of create_full_prompt
PromptFormattable(target) ==
    /\ Formattable(target, "P/E", FALSE)
    /\ Formattable(target, "ROE", TRUE)
    /\ Formattable(target, "EPS Growth", TRUE)
    /\ Formattable(target, "Debt/Equity", FALSE)

\* the key-metrics table of main
ReportFormattable(target) ==
    /\ Formattable(target, "P/E", FALSE)
    /\ Formattable(target, "Forward P/E", FALSE)
    /\ Formattable(target, "PEG Ratio", FALSE)
    /\ Formattable(target, "ROE", TRUE)
    /\ Formattable(target, "EPS Growth", TRUE)
    /\ Formattable(target, "Revenue Growth", TRUE)
    /\ Formattable(target, "Debt/Equity", FALSE)

\* `not peer_analysis`: None and an empty dict are falsy
NotTruthy(r) == r = NoneV \/ DOMAIN r = {}

InitMain ==
    /\ pc = "main"
    /\ target_ticker \in Tickers
    /\ all_data = EmptyDict
    /\ Unset
    /\ Alone

\* Step 1: find_peers returns any list of other tickers, possibly empty
FindPeers ==
    /\ pc = "main"
    /\ main_peers' \in SUBSET (Tickers \ {target_ticker})
    /\ pc' = "fetch"
    /\ UNCHANGED <<target_ticker, all_data, target_data, peer_data, peer_stats,
                   comparison_table, summary_score, adjustments, result,
                   alt_data, alt_out>>

\* Step 2: get_stocks_data([target] + peers), then `if target_ticker not in
\* all_data: return`
FetchData ==
    /\ pc = "fetch"
    /\ all_data' \in FetchResults({target_ticker} \cup main_peers)
    /\ pc' = IF target_ticker \in DOMAIN all_data' THEN "start" ELSE "exit"
    /\ UNCHANGED <<target_ticker, target_data, peer_data, peer_stats,
                   comparison_table, summary_score, adjustments, result,
                   main_peers, alt_data, alt_out>>

\* Step 3, after analyze_with_peers returned: `if not peer_analysis: return`
CheckAnalysis ==
    /\ pc = "done"
    /\ pc' = IF NotTruthy(result) THEN "exit" ELSE "llm"
    /\ UNCHANGED <<target_ticker, all_data, target_data, peer_data, peer_stats,
                   comparison_table, summary_score, adjustments, result,
                   main_peers, alt_data, alt_out>>

\* Step 4: initialize_llm() returns a generator or None
InitLLM ==
    /\ pc = "llm"
    /\ pc' \in {"prompt", "report"}
    /\ UNCHANGED <<target_ticker, all_data, target_data, peer_data, peer_stats,
                   comparison_table, summary_score, adjustments, result,
                   main_peers, alt_data, alt_out>>

\* Step 4: create_full_prompt reads comparison_table and summary_score of
\* peer_analysis (with .get and a default) after formatting the key metrics
BuildPrompt ==
    /\ pc = "prompt"
    /\ pc' = IF PromptFormattable(all_data[target_ticker]) THEN "report" ELSE "raised"
    /\ UNCHANGED <<target_ticker, all_data, target_data, peer_data, peer_stats,
                   comparison_table, summary_score, adjustments, result,
                   main_peers, alt_data, alt_out>>

\* Step 5: the snapshot and the key-metrics table
ReportMetrics ==
    /\ pc = "report"
    /\ pc' = IF ReportFormattable(all_data[target_ticker])
             THEN "report_table" ELSE "raised"
    /\ UNCHANGED <<target_ticker, all_data, target_data, peer_data, peer_stats,
                   comparison_table, summary_score, adjustments, result,
                   main_peers, alt_data, alt_out>>

\* Step 5: print(peer_analysis["comparison_table"]) is a KeyError when the
\* key is missing
ReportTable ==
    /\ pc = "report_table"
    /\ pc' = IF "comparison_table" \in DOMAIN result THEN "exit" ELSE "raised"
    /\ UNCHANGED <<target_ticker, all_data, target_data, peer_data, peer_stats,
                   comparison_table, summary_score, adjustments, result,
                   main_peers, alt_data, alt_out>>

\* Step 3 is the call analyze_with_peers(target_ticker, all_data); after the
\* check of Step 2 the target has a non-empty record, so the call never
\* takes its `return None` branch here
NextMain ==
    \/ FindPeers
    \/ FetchData
    \/ ReturnNoPeers
    \/ SplitPeers
    \/ CalcPeerStats
    \/ CreateTable
    \/ CalcScore
    \/ Assemble
    \/ CheckAnalysis
    \/ InitLLM
    \/ BuildPrompt
    \/ ReportMetrics
    \/ ReportTable

SpecMain == InitMain /\ [][NextMain]_vars

\* C12: main checks for the no-peer signal before it uses the analysis: the
\* steps that read comparison_table / summary_score (building the prompt,
\* displaying the report) are reached only with a successful result.
C12_ErrorCheckedBeforeUse ==
    pc \in {"prompt", "report", "report_table"} => IsSuccess(result)

====
